---- MODULE Spec2Model ----
(***************************************************************************)
(* NTree (cyrusfirheir/ntree): the tree registry, the per-tree handler     *)
(* table, the dispatch engine (NTree.update) and the <<treebranch>> macro  *)
(* handler of src/src/scripts/ntree/index.ts.                              *)
(*                                                                         *)
(* JavaScript values are records [t, n, items]: t is the kind ("num",      *)
(* "str", "content", "clear", "ctx", "list"), n a number and items the     *)
(* elements of a list.  A JavaScript object or Map is a function whose     *)
(* DOMAIN is the set of keys present; a Map that iterates in insertion     *)
(* order (the handler table) is a sequence of entries.                     *)
(* Not modelled: the Handler.delta slot written at index.ts:113 (nothing   *)
(* reads it).                                                              *)
(***************************************************************************)
EXTENDS Integers, Sequences, FiniteSets, TLC

\* ------------------------------------------------------------- bounds
\* longest payload (the <<treebranch>> chunk plus its <<leaf>> chunks)
MaxLeaves == 3
\* longest counted run of visitations of one branch
MaxVisits == 4
\* most macro contexts one stored list may have collected
MaxPush == 2

\* ------------------------------------------------------------- values
Val(t, n) == [t |-> t, n |-> n, items |-> <<>>]
Num(n) == Val("num", n)
Str(n) == Val("str", n)
\* chunk.contents of payload[i]
Contents(i) == Val("content", i)
\* A MacroContext is a new object in every visitation: ThisCtx is the context of
\* the visitation under way, EarlierCtx the context of one that has ended.
ThisCtx == Val("ctx", 1)
EarlierCtx == Val("ctx", 0)
ListOf(s) == [t |-> "list", n |-> 0, items |-> s]
IsArray(v) == v.t = "list"

\* NTree.clear
clear == Val("clear", 0)

\* NTree.defaultHandlerID
defaultHandlerID == "__default"

EmptyMap == [k \in {} |-> 0]
MapSet(m, k, v) == [x \in DOMAIN m \cup {k} |-> IF x = k THEN v ELSE m[x]]
MapDel(m, k) == [x \in DOMAIN m \ {k} |-> m[x]]
\* Object.assign(a, b): the keys of b win
Assign(a, b) == [x \in DOMAIN a \cup DOMAIN b |-> IF x \in DOMAIN b THEN b[x] ELSE a[x]]

\* !id?.trim()
IsBlank(id) == id \in {"", " "}

\* ------------------------------------------------- handler definitions
\* A callable is named by what it does when called: "returns", "throws" (an
\* Error object), "throwsNull" (throw null), "builtin"
\* (NTree.defaultOnUpdateHandler), "revisits" (it wikifies a <<treebranch>> of
\* the tree and of macroContext.branchID into the output of the macro context
\* it is given, unless it is running already).  "missing" is an absent (falsy)
\* member and "notfn" a truthy value that is no function.
IsFunction(f) == f \in {"returns", "throws", "throwsNull", "builtin", "revisits"}

Def(u, c, s, e) == [onUpdate |-> u, onClear |-> c, skipArgs |-> s, clearOnEveryLeaf |-> e]

\* Entry without the two flags of the definition
EntryWithoutFlags(def, id) ==
    [id |-> id, onUpdate |-> def.onUpdate, onClear |-> def.onClear,
     skipArgs |-> FALSE, clearOnEveryLeaf |-> FALSE]

\* Object.assign(Object.create(null), def, { id })
Entry(def, id) == [id |-> id, onUpdate |-> def.onUpdate, onClear |-> def.onClear,
                   skipArgs |-> def.skipArgs, clearOnEveryLeaf |-> def.clearOnEveryLeaf]

\* Map.has / Map.delete / Map.set on the insertion-ordered handler table
HasHandler(handlers, id) == \E i \in 1..Len(handlers) : handlers[i].id = id
DeleteHandler(handlers, id) == SelectSeq(handlers, LAMBDA h : h.id # id)
SetHandler(handlers, e) ==
    IF HasHandler(handlers, e.id)
    THEN [i \in 1..Len(handlers) |-> IF handlers[i].id = e.id THEN e ELSE handlers[i]]
    ELSE Append(handlers, e)
HandlerIDs(handlers) == {handlers[i].id : i \in 1..Len(handlers)}

\* the three validations of a definition in registerHandler
DefValid(def) ==
    /\ def.onUpdate # "missing"
    /\ IsFunction(def.onUpdate)
    /\ (def.onClear # "missing" => IsFunction(def.onClear))

\* NTree.registerHandler: the loop over IDs.  Each id is checked, its entry is
\* deleted, the definition is validated, the entry is set; a throw leaves the
\* table as the loop made it so far.
RECURSIVE registerHandler(_, _, _)
registerHandler(handlers, IDs, def) ==
    IF IDs = <<>> THEN [handlers |-> handlers, threw |-> FALSE]
    ELSE LET id == Head(IDs)
             deleted == DeleteHandler(handlers, id)
         IN  IF IsBlank(id) THEN [handlers |-> handlers, threw |-> TRUE]
             ELSE IF ~DefValid(def) THEN [handlers |-> deleted, threw |-> TRUE]
             ELSE registerHandler(SetHandler(deleted, Entry(def, id)), Tail(IDs), def)

\* NTree.registerDefault
registerDefault(handlers, onUpdate) ==
    registerHandler(handlers, <<defaultHandlerID>>, Def(onUpdate, "missing", FALSE, FALSE))

\* the handler table a constructor leaves: registerDefault on an empty Map
NewHandlers == registerDefault(<<>>, "builtin").handlers

\* the state entry a constructor writes
NewState == [log |-> EmptyMap, delta |-> EmptyMap]

\* ------------------------------------------------------ dispatch engine
NoCtx == Val("undefined", 0)

\* Rendered of the current chunk alone
RenderedCurrentOnly(current, len) == IF current < len THEN <<Contents(current)>> ELSE <<>>

\* macroContext.payload.slice(1, currentPayload + 1).map(load => load.contents)
Rendered(current, len) ==
    LET hi == IF current + 1 < len THEN current ELSE len - 1
    IN  [i \in 1..(IF hi < 0 THEN 0 ELSE hi) |-> Contents(i)]

Call(id, fn, args) == [id |-> id, fn |-> fn, args |-> args]

\* what calling a callable does to the dispatch: r is [delta, calls, out, threw].
\* (A callable of kind "revisits" that is called while it is running returns;
\* RevisitedBy tells what it does when it is not.)
Invoke(r, h, fn, kind, args, ctx, current, len) ==
    [delta |-> r.delta,
     calls |-> Append(r.calls, Call(h.id, fn, args)),
     out |-> IF kind = "builtin" /\ ctx # NoCtx THEN Append(r.out, Rendered(current, len)) ELSE r.out,
     threw |-> CASE kind = "throws" -> "error"
                 [] kind = "throwsNull" -> "null"
                 [] OTHER -> "no"]

\* clear() of update
Clear(r, h, ctx, current, len) ==
    IF h.onClear # "missing" THEN Invoke(r, h, "onClear", h.onClear, <<ctx>>, ctx, current, len) ELSE r

\* PushedArgs without the test for an array
PushedArgsWrapped(deltaVal, ctx) == <<deltaVal, ctx>>

\* deltaVal instanceof Array ? deltaVal : [deltaVal], then args.push(macroContext):
\* the array that receives the push is deltaVal itself when deltaVal is an array
PushedArgs(deltaVal, ctx) ==
    IF IsArray(deltaVal) THEN Append(deltaVal.items, ctx) ELSE <<deltaVal, ctx>>
AfterPush(deltaVal, ctx) ==
    IF IsArray(deltaVal) THEN ListOf(Append(deltaVal.items, ctx)) ELSE deltaVal

\* the values JavaScript takes for false in a condition: 0, false, "", null
False == Val("bool", 0)
Null == Val("null", 0)
EmptyStr == Val("str", -1)
Falsy(v) == v \in {Num(0), False, EmptyStr, Null}

\* HasKey by the truth of the value: if (delta[id])
HasKeyTruthy(delta, id) == id \in DOMAIN delta /\ ~Falsy(delta[id])

\* delta.hasOwnProperty(id)
HasKey(delta, id) == id \in DOMAIN delta

\* UpdateOne with the test of skipArgs before the test for NTree.clear
UpdateOneClearLate(r, h, ctx, current, len) ==
    IF HasKey(r.delta, h.id)
    THEN LET deltaVal == r.delta[h.id]
         IN  IF h.skipArgs
             THEN Invoke(r, h, "onUpdate", h.onUpdate, <<deltaVal, ctx>>, ctx, current, len)
             ELSE IF deltaVal = clear THEN Clear(r, h, ctx, current, len)
             ELSE Invoke([r EXCEPT !.delta = MapSet(r.delta, h.id, AfterPush(deltaVal, ctx))],
                         h, "onUpdate", h.onUpdate, PushedArgs(deltaVal, ctx), ctx, current, len)
    ELSE IF h.clearOnEveryLeaf THEN Clear(r, h, ctx, current, len) ELSE r

\* UpdateOne clearing every handler that has no key in the delta
UpdateOneClearsAll(r, h, ctx, current, len) ==
    IF HasKey(r.delta, h.id)
    THEN LET deltaVal == r.delta[h.id]
         IN  IF deltaVal = clear THEN Clear(r, h, ctx, current, len)
             ELSE IF h.skipArgs
             THEN Invoke(r, h, "onUpdate", h.onUpdate, <<deltaVal, ctx>>, ctx, current, len)
             ELSE Invoke([r EXCEPT !.delta = MapSet(r.delta, h.id, AfterPush(deltaVal, ctx))],
                         h, "onUpdate", h.onUpdate, PushedArgs(deltaVal, ctx), ctx, current, len)
    ELSE Clear(r, h, ctx, current, len)

\* the callback of handlers.forEach for one handler
UpdateOne(r, h, ctx, current, len) ==
    IF HasKey(r.delta, h.id)
    THEN LET deltaVal == r.delta[h.id]
         IN  IF deltaVal = clear THEN Clear(r, h, ctx, current, len)
             ELSE IF h.skipArgs
             THEN Invoke(r, h, "onUpdate", h.onUpdate, <<deltaVal, ctx>>, ctx, current, len)
             ELSE Invoke([r EXCEPT !.delta = MapSet(r.delta, h.id, AfterPush(deltaVal, ctx))],
                         h, "onUpdate", h.onUpdate, PushedArgs(deltaVal, ctx), ctx, current, len)
    ELSE IF h.clearOnEveryLeaf THEN Clear(r, h, ctx, current, len) ELSE r

\* NTree.update: handlers.forEach in insertion order; a throw ends the loop
RECURSIVE updateLoop(_, _, _, _, _)
updateLoop(r, handlers, ctx, current, len) ==
    IF handlers = <<>> \/ r.threw # "no" THEN r
    ELSE updateLoop(UpdateOne(r, Head(handlers), ctx, current, len), Tail(handlers),
                    ctx, current, len)

\* current and len are macroContext.currentPayload and macroContext.payload.length
update(handlers, delta, ctx, current, len) ==
    updateLoop([delta |-> delta, calls |-> <<>>, out |-> <<>>, threw |-> "no"],
               handlers, ctx, current, len)


\* ------------------------------------------------- <<treebranch>> handler
\* NTreeBranchRepeatConfig
NoRepeat == "norepeat"
RepeatLast == "repeatlast"
Repeat == "repeat"

\* Scripting.evalJavaScript(`(${args})`) of chunk.args.full.trim() || "{}":
\* the argument expressions of a leaf, by their source text
ArgExprs == {"", "{", "{p: 1}", "{p: [1]}", "{__default: 'x'}", "{p: NTree.clear}"}
Malformed(args) == args = "{"
Parsed(args) ==
    CASE args = "{p: 1}" -> ("p" :> Num(1))
      [] args = "{p: [1]}" -> ("p" :> ListOf(<<Num(1)>>))
      [] args = "{__default: 'x'}" -> (defaultHandlerID :> Str(0))
      [] args = "{q: 1}" -> ("q" :> Num(1))
      [] args = "{p: NTree.clear}" -> ("p" :> clear)
      [] OTHER -> EmptyMap

\* tree.state.log[branchID] ?? 0
Latest(state, branchID) == IF branchID \in DOMAIN state.log THEN state.log[branchID] ELSE 0

\* EndPolicy with Repeat restarting at chunk 0
EndPolicyRestartAtZero(repeat, latest, len) ==
    LET current == latest + 1
    IN  IF current = len
        THEN CASE repeat = Repeat -> [stop |-> FALSE, current |-> 0]
               [] repeat = RepeatLast -> [stop |-> FALSE, current |-> latest]
               [] repeat = NoRepeat -> [stop |-> TRUE, current |-> current]
               [] OTHER -> [stop |-> FALSE, current |-> current]
        ELSE [stop |-> FALSE, current |-> current]

\* EndPolicy with NoRepeat falling through to RepeatLast
EndPolicyNoStop(repeat, latest, len) ==
    LET current == latest + 1
    IN  IF current = len
        THEN CASE repeat = Repeat -> [stop |-> FALSE, current |-> 1]
               [] repeat \in {RepeatLast, NoRepeat} -> [stop |-> FALSE, current |-> latest]
               [] OTHER -> [stop |-> FALSE, current |-> current]
        ELSE [stop |-> FALSE, current |-> current]

\* EndPolicy with RepeatLast restarting like Repeat
EndPolicyLastRestarts(repeat, latest, len) ==
    LET current == latest + 1
    IN  IF current = len
        THEN CASE repeat \in {Repeat, RepeatLast} -> [stop |-> FALSE, current |-> 1]
               [] repeat = NoRepeat -> [stop |-> TRUE, current |-> current]
               [] OTHER -> [stop |-> FALSE, current |-> current]
        ELSE [stop |-> FALSE, current |-> current]

\* the end-of-sequence switch: the leaf index to reveal, or a stop
EndPolicy(repeat, latest, len) ==
    LET current == latest + 1
    IN  IF current = len
        THEN CASE repeat = Repeat -> [stop |-> FALSE, current |-> 1]
               [] repeat = RepeatLast -> [stop |-> FALSE, current |-> latest]
               [] repeat = NoRepeat -> [stop |-> TRUE, current |-> current]
               [] OTHER -> [stop |-> FALSE, current |-> current]
        ELSE [stop |-> FALSE, current |-> current]

\* Object.keys(parsedDelta).forEach(key => delta[key] = parsedDelta[key]) on
\* tree.state.delta
MergeLeaf(delta, parsedDelta) == Assign(delta, parsedDelta)

\* Object.assign({ [NTree.defaultHandlerID]: chunk.contents }, delta)
DispatchDelta(contents, delta) == Assign((defaultHandlerID :> contents), delta)

\* what the catch block at the directive boundary does with a thrown value:
\* typeof ex === "object" ? ex.message : ex.  null is an object without members,
\* so reading its message throws out of the catch block and nothing is reported.
Report(threw) == IF threw = "null" THEN "uncaught" ELSE "diagnostic"

\* the arrays of the accumulator are the arrays of the dispatched delta: a push
\* made by update shows in tree.state.delta
Ended(v) ==
    IF IsArray(v)
    THEN ListOf([i \in 1..Len(v.items) |-> IF v.items[i] = ThisCtx THEN EarlierCtx ELSE v.items[i]])
    ELSE v
Aliased(delta, dispatched) == [k \in DOMAIN delta |-> Ended(dispatched[k])]

Result(outcome, error, store, leaf, delta, calls, out) ==
    [outcome |-> outcome, error |-> error, store |-> store, leaf |-> leaf,
     delta |-> delta, calls |-> calls, out |-> out, given |-> <<>>, inner |-> <<>>]
Failed(error, store) == Result("diagnostic", error, store, -1, EmptyMap, <<>>, <<>>)

\* WriteCursor writing the cursor of every branch the log holds
WriteCursorAll(state, delta, branchID, current) ==
    [log |-> MapSet([b \in DOMAIN state.log |-> current], branchID, current), delta |-> delta]

\* the cursor write of a visitation whose dispatch returned
WriteCursor(state, delta, branchID, current) ==
    [log |-> MapSet(state.log, branchID, current), delta |-> delta]

\* the part of the handler after the tree is resolved
Reveal(repo, store, treeID, branchID, repeat, len, args) ==
    LET state == store[treeID]
        latest == Latest(state, branchID)
        pol == EndPolicy(repeat, latest, len)
        current == pol.current
        merged == MergeLeaf(state.delta, Parsed(args))
        r == update(repo[treeID], DispatchDelta(Contents(current), merged), ThisCtx, current, len)
        after == Aliased(merged, r.delta)
    IN  IF pol.stop THEN Result("silent", "none", store, -1, EmptyMap, <<>>, <<>>)
        ELSE IF current >= len THEN Failed("TypeError", store)
        ELSE IF Malformed(args) THEN Failed("Malformed argument object", store)
        ELSE IF r.threw # "no"
        THEN Result(Report(r.threw), "provider",
                    MapSet(store, treeID, [log |-> state.log, delta |-> after]),
                    current, DispatchDelta(Contents(current), merged), r.calls, r.out)
        ELSE Result("dispatched", "none",
                    MapSet(store, treeID, WriteCursor(state, after, branchID, current)),
                    current, DispatchDelta(Contents(current), merged), r.calls, r.out)

\* treebranch without the check of the branch id
treebranchAnyBranch(repo, store, treeID, branchID, repeatArg, len, args) ==
    LET repeat == IF repeatArg = "undefined" THEN RepeatLast ELSE repeatArg
    IN  IF IsBlank(treeID) THEN Failed("No NTree ID specified", store)
        ELSE IF treeID \notin DOMAIN repo THEN Failed("No NTree with specified ID", store)
        ELSE IF treeID \notin DOMAIN store THEN Failed("TypeError", store)
        ELSE Reveal(repo, store, treeID, branchID, repeat, len, args)

\* the handler of Macro.add("treebranch", ...)
treebranch(repo, store, treeID, branchID, repeatArg, len, args) ==
    LET repeat == IF repeatArg = "undefined" THEN RepeatLast ELSE repeatArg
    IN  IF IsBlank(treeID) THEN Failed("No NTree ID specified", store)
        ELSE IF IsBlank(branchID) THEN Failed("No NTreeBranch ID specified", store)
        ELSE IF treeID \notin DOMAIN repo THEN Failed("No NTree with specified ID", store)
        ELSE IF treeID \notin DOMAIN store THEN Failed("TypeError", store)
        ELSE Reveal(repo, store, treeID, branchID, repeat, len, args)


\* ------------------------------ a visitation started from inside a callable
\* What a callable of kind "revisits" does when update calls it in a
\* visitation and it is not running: the <<treebranch>> it wikifies, of the
\* same tree and branch with the same end policy, runs to its end inside the
\* call.  Its payload has the same length and its leaves have no argument
\* object.  Inside that visitation the callable is running, and returns when
\* it is called: the inner visitation is treebranch as it stands above.

\* the context of the visitation that is waiting for one of its callables
OuterCtx == Val("ctx", 2)
Relabel(v, from, to) ==
    IF IsArray(v)
    THEN ListOf([i \in 1..Len(v.items) |-> IF v.items[i] = from THEN to ELSE v.items[i]])
    ELSE v

\* the visitation whose dispatch is under way
Site(repo, treeID, branchID, repeat, len) ==
    [repo |-> repo, tree |-> treeID, branch |-> branchID, repeat |-> repeat, len |-> len]

\* DuringDispatch with the cursor written before tree.update is called
DuringDispatchCursorFirst(state, merged, branchID, current) ==
    [log |-> MapSet(state.log, branchID, current), delta |-> merged]

\* the state entry of the tree while tree.update runs: the leaf's keys are in
\* the accumulator, the cursor is not written yet
DuringDispatch(state, merged, branchID, current) ==
    [log |-> state.log, delta |-> merged]

\* the step of update for the handler h called a callable that revisits
RevisitedBy(r, stepped, h) ==
    /\ Len(stepped.calls) > Len(r.calls)
    /\ LET c == stepped.calls[Len(stepped.calls)]
       IN  (IF c.fn = "onUpdate" THEN h.onUpdate ELSE h.onClear) = "revisits"

\* the state store the inner visitation starts on: the arrays of the
\* accumulator are the arrays of the delta that update was given
StoreDuring(w, r, site) ==
    MapSet(w.store, site.tree,
           [log |-> w.store[site.tree].log,
            delta |-> [k \in DOMAIN w.store[site.tree].delta |->
                          Relabel(r.delta[k], ThisCtx, OuterCtx)]])

\* the dispatch w = [r, store, inner] once the inner visitation n, which read
\* the cursor before, has ended inside the call: n has written the state store
\* and pushed onto the arrays it shares with the delta of the outer dispatch;
\* an exception that escaped the inner handler is thrown by the call
Returned(w, r, site, before, n) ==
    [r |-> [r EXCEPT !.delta = [k \in DOMAIN r.delta |->
                                  IF k \in DOMAIN n.store[site.tree].delta /\ IsArray(r.delta[k])
                                  THEN Relabel(n.store[site.tree].delta[k], OuterCtx, ThisCtx)
                                  ELSE r.delta[k]],
                     !.threw = IF n.outcome = "uncaught" THEN "error" ELSE "no"],
     store |-> MapSet(n.store, site.tree,
                      [log |-> n.store[site.tree].log,
                       delta |-> [k \in DOMAIN n.store[site.tree].delta |->
                                     Relabel(n.store[site.tree].delta[k], OuterCtx, ThisCtx)]]),
     inner |-> Append(w.inner, [before |-> before, leaf |-> n.leaf, outcome |-> n.outcome,
                                calls |-> n.calls])]

\* the call of a callable that revisits
Revisit(w, r, site) ==
    Returned(w, r, site, Latest(w.store[site.tree], site.branch),
             treebranch(site.repo, StoreDuring(w, r, site), site.tree, site.branch,
                        site.repeat, site.len, ""))

\* the callback of handlers.forEach for one handler, in a visitation
UpdateOneNesting(w, stepped, h, site) ==
    IF RevisitedBy(w.r, stepped, h) THEN Revisit(w, stepped, site) ELSE [w EXCEPT !.r = stepped]

\* NTree.update called by a visitation
RECURSIVE updateNesting(_, _, _, _, _, _)
updateNesting(w, site, handlers, ctx, current, len) ==
    IF handlers = <<>> \/ w.r.threw # "no" THEN w
    ELSE updateNesting(UpdateOneNesting(w, UpdateOne(w.r, Head(handlers), ctx, current, len),
                                        Head(handlers), site),
                       site, Tail(handlers), ctx, current, len)

\* the end of the handler: the cursor write when update returned, the catch
\* block when it threw
Ending(w, treeID, branchID, current, merged, delta) ==
    IF w.r.threw # "no"
    THEN [Result(Report(w.r.threw), "provider",
                 MapSet(w.store, treeID, [log |-> w.store[treeID].log,
                                          delta |-> Aliased(merged, w.r.delta)]),
                 current, delta, w.r.calls, w.r.out)
            EXCEPT !.inner = w.inner]
    ELSE [Result("dispatched", "none",
                 MapSet(w.store, treeID,
                        WriteCursor(w.store[treeID], Aliased(merged, w.r.delta), branchID, current)),
                 current, delta, w.r.calls, w.r.out)
            EXCEPT !.inner = w.inner]

\* the handler from tree.update on, for the leaf current and the delta built
\* for it
Dispatched(repo, store, treeID, branchID, repeat, len, merged, current, delta) ==
    Ending(updateNesting([r |-> [delta |-> delta, calls |-> <<>>, out |-> <<>>, threw |-> "no"],
                          store |-> MapSet(store, treeID,
                                           DuringDispatch(store[treeID], merged, branchID, current)),
                          inner |-> <<>>],
                         Site(repo, treeID, branchID, repeat, len),
                         repo[treeID], ThisCtx, current, len),
           treeID, branchID, current, merged, delta)

\* the handler of Macro.add("treebranch", ...) when callables may revisit: as
\* treebranch up to the call of tree.update
treebranchNesting(repo, store, treeID, branchID, repeatArg, len, args, plain) ==
    IF plain.leaf < 0 THEN plain
    ELSE Dispatched(repo, store, treeID, branchID,
                    IF repeatArg = "undefined" THEN RepeatLast ELSE repeatArg, len,
                    MergeLeaf(store[treeID].delta, Parsed(args)), plain.leaf, plain.delta)


\* deleteNTree with || in the place of &&
deleteNTreeOr(repo, store, id) ==
    IF id \in DOMAIN repo
    THEN [repo |-> MapDel(repo, id), store |-> store, result |-> TRUE]
    ELSE [repo |-> repo, store |-> MapDel(store, id), result |-> id \in DOMAIN store]

\* NTree.deleteNTree: Repository.delete(id) && StateStore.delete(id)
deleteNTree(repo, store, id) ==
    IF id \in DOMAIN repo
    THEN [repo |-> MapDel(repo, id), store |-> MapDel(store, id), result |-> id \in DOMAIN store]
    ELSE [repo |-> repo, store |-> store, result |-> FALSE]

\* ------------------------------------------------------------- inputs
TreeIDs == {"t1"}
BranchIDs == {"b1"}
RepeatArgs == {"undefined", NoRepeat, RepeatLast, Repeat, "bogus"}
Lengths == 1..MaxLeaves
RegIDs == {<<"p">>, <<"p", "">>}
RegDefs == {Def("returns", "missing", FALSE, FALSE), Def("throws", "missing", FALSE, FALSE),
            Def("missing", "missing", FALSE, FALSE)}
DefaultFns == {"returns", "missing"}
Deltas == {EmptyMap, ("p" :> clear)}
SomeArgs == {"", "{", "{p: [1]}"}

\* ------------------------------------------------------------- state
VARIABLES Repository, StateStore, last, run

vars == <<Repository, StateStore, last, run>>

\* last: what the most recent operation was given and what it did
Op(op, tree, branch, repeat, len, args, before, res) ==
    [op |-> op, tree |-> tree, branch |-> branch, repeat |-> repeat, len |-> len,
     args |-> args, before |-> before, given |-> res.given, inner |-> res.inner,
     outcome |-> res.outcome, error |-> res.error,
     leaf |-> res.leaf, delta |-> res.delta, calls |-> res.calls, out |-> res.out]
Plain(outcome) == Result(outcome, "none", EmptyMap, -1, EmptyMap, <<>>, <<>>)
\* an operation given the arguments g (the ids and the definition of a registration)
Given(outcome, g) == [Plain(outcome) EXCEPT !.given = g]

\* run: the visitations of one (tree, branch) made one after the other with the
\* same end-policy and payload length, counted from a fresh cursor; a visitation
\* that ends in an error ends the run
NoRun == [tree |-> "", branch |-> "", repeat |-> "", len |-> 0, n |-> 0]
Continues(treeID, branchID, repeat, len) ==
    /\ run.n > 0
    /\ run.tree = treeID /\ run.branch = branchID /\ run.repeat = repeat /\ run.len = len
Resolves(treeID, branchID) ==
    /\ ~IsBlank(treeID) /\ ~IsBlank(branchID)
    /\ treeID \in DOMAIN Repository /\ treeID \in DOMAIN StateStore
RunAfter(treeID, branchID, repeat, len, res) ==
    LET fine == res.outcome \in {"dispatched", "silent"}
    IN  IF Continues(treeID, branchID, repeat, len)
        THEN (IF fine THEN [run EXCEPT !.n = run.n + 1] ELSE NoRun)
        ELSE IF fine /\ Resolves(treeID, branchID) /\ Latest(StateStore[treeID], branchID) = 0
        THEN [tree |-> treeID, branch |-> branchID, repeat |-> repeat, len |-> len, n |-> 1]
        ELSE NoRun

\* contexts collected by the lists of a store
Pushes(v) == IF IsArray(v) THEN Cardinality({i \in 1..Len(v.items) : v.items[i].t = "ctx"}) ELSE 0
WithinPush(store) ==
    \A t \in DOMAIN store : \A k \in DOMAIN store[t].delta : Pushes(store[t].delta[k]) <= MaxPush

Init ==
    /\ Repository = EmptyMap
    /\ StateStore = EmptyMap
    /\ last = Op("init", "", "", "", 0, "", -1, Plain("ok"))
    /\ run = NoRun

\* new NTree(id)
NewTree(id) ==
    /\ IF IsBlank(id)
       THEN /\ UNCHANGED <<Repository, StateStore>>
            /\ last' = Op("new", id, "", "", 0, "", -1, Plain("threw"))
       ELSE /\ Repository' = MapSet(Repository, id, NewHandlers)
            /\ StateStore' = MapSet(StateStore, id, NewState)
            /\ last' = Op("new", id, "", "", 0, "", -1, Plain("ok"))
    /\ run' = NoRun

\* how many of the ids IDs have an entry in the handler table
Registered(handlers, IDs) == Cardinality({i \in 1..Len(IDs) : HasHandler(handlers, IDs[i])})

\* tree.registerHandler(IDs, def) on the tree registered as treeID; before is
\* the number of the ids that had an entry
RegisterHandler(treeID, IDs, def) ==
    /\ treeID \in DOMAIN Repository
    /\ LET r == registerHandler(Repository[treeID], IDs, def)
       IN  /\ Repository' = MapSet(Repository, treeID, r.handlers)
           /\ last' = Op("registerHandler", treeID, "", "", 0, "",
                         Registered(Repository[treeID], IDs),
                         Given(IF r.threw THEN "threw" ELSE "ok", <<IDs, def>>))
    /\ run' = NoRun
    /\ UNCHANGED StateStore

\* tree.registerDefault(onUpdate)
RegisterDefault(treeID, onUpdate) ==
    /\ treeID \in DOMAIN Repository
    /\ LET r == registerDefault(Repository[treeID], onUpdate)
       IN  /\ Repository' = MapSet(Repository, treeID, r.handlers)
           /\ last' = Op("registerDefault", treeID, "", "", 0, "", -1,
                         Given(IF r.threw THEN "threw" ELSE "ok", <<onUpdate>>))
    /\ run' = NoRun
    /\ UNCHANGED StateStore

\* tree.update(delta) called by the author's code, without a macro context
Update(treeID, delta) ==
    /\ treeID \in DOMAIN Repository
    /\ LET r == update(Repository[treeID], delta, NoCtx, 0, 0)
       IN  last' = Op("update", treeID, "", "", 0, "", -1,
                      Result(IF r.threw = "no" THEN "ok" ELSE "threw", "none", EmptyMap, -1,
                             delta, r.calls, r.out))
    /\ run' = NoRun
    /\ UNCHANGED <<Repository, StateStore>>

\* one <<treebranch treeID branchID repeatArg>> with a payload of len chunks,
\* args being the argument text of the chunk it reveals.  last keeps the inputs
\* the handler read: repeat and len once the tree is resolved, args once the
\* chunk is read.
Visit(treeID, branchID, repeatArg, len, args) ==
    LET repeat == IF repeatArg = "undefined" THEN RepeatLast ELSE repeatArg
        res == treebranch(Repository, StateStore, treeID, branchID, repeatArg, len, args)
        resolved == Resolves(treeID, branchID)
        before == IF resolved THEN Latest(StateStore[treeID], branchID) ELSE -1
        readArgs == res.leaf >= 0 \/ res.error = "Malformed argument object"
    IN  /\ ~(Continues(treeID, branchID, repeat, len) /\ run.n >= MaxVisits)
        /\ WithinPush(res.store)
        /\ StateStore' = res.store
        /\ last' = Op("visit", treeID, branchID, IF resolved THEN repeat ELSE "",
                      IF resolved THEN len ELSE 0, IF readArgs THEN args ELSE "", before, res)
        /\ run' = RunAfter(treeID, branchID, repeat, len, res)
        /\ UNCHANGED Repository

\* tree.update(delta, macroContext) called by the author's code with the
\* context of a macro of their own (it has no currentPayload)
UpdateWith(treeID, delta, ctx) ==
    /\ treeID \in DOMAIN Repository
    /\ LET r == update(Repository[treeID], delta, ctx, 0, 0)
       IN  last' = Op("update", treeID, "", "", 0, "", -1,
                      [Result(IF r.threw = "no" THEN "ok" ELSE "threw", "none", EmptyMap, -1,
                              delta, r.calls, r.out) EXCEPT !.given = <<ctx>>])
    /\ run' = NoRun
    /\ UNCHANGED <<Repository, StateStore>>

\* one <<treebranch treeID branchID repeatArg>> of a tree that may have
\* callables that revisit
VisitNesting(treeID, branchID, repeatArg, len, args) ==
    LET repeat == IF repeatArg = "undefined" THEN RepeatLast ELSE repeatArg
        res == treebranchNesting(Repository, StateStore, treeID, branchID, repeatArg, len, args,
                   treebranch(Repository, StateStore, treeID, branchID, repeatArg, len, args))
        before == Latest(StateStore[treeID], branchID)
        readArgs == res.leaf >= 0 \/ res.error = "Malformed argument object"
    IN  /\ Resolves(treeID, branchID)
        /\ ~(Continues(treeID, branchID, repeat, len) /\ run.n >= MaxVisits)
        /\ WithinPush(res.store)
        /\ StateStore' = res.store
        /\ last' = Op("visit", treeID, branchID, repeat, len, IF readArgs THEN args ELSE "",
                      before, res)
        /\ run' = RunAfter(treeID, branchID, repeat, len, res)
        /\ UNCHANGED Repository

\* NTree.deleteNTree(id)
DeleteNTree(id) ==
    /\ LET r == deleteNTree(Repository, StateStore, id)
       IN  /\ Repository' = r.repo
           /\ StateStore' = r.store
           /\ last' = Op("delete", id, "", "", 0, "", -1, Plain(IF r.result THEN "true" ELSE "false"))
    /\ run' = NoRun

\* a visitation the handler rejects before it reads the payload
Misaddressed(treeID, branchID) ==
    /\ ~Resolves(treeID, branchID)
    /\ Visit(treeID, branchID, "undefined", 1, "")

\* a visitation of a branch of a registered tree
Addressed(treeID, branchID, repeatArg, len, args) ==
    /\ Resolves(treeID, branchID)
    /\ Visit(treeID, branchID, repeatArg, len, args)

Next ==
    \/ \E id \in TreeIDs \cup {""} : NewTree(id)
    \/ \E t \in TreeIDs, IDs \in RegIDs, def \in RegDefs : RegisterHandler(t, IDs, def)
    \/ \E t \in TreeIDs, f \in DefaultFns : RegisterDefault(t, f)
    \/ \E t \in TreeIDs, d \in Deltas : Update(t, d)
    \/ \E t \in TreeIDs \cup {""}, b \in BranchIDs \cup {""} : Misaddressed(t, b)
    \/ \E t \in TreeIDs, b \in BranchIDs, r \in RepeatArgs, len \in Lengths, a \in SomeArgs :
          Addressed(t, b, r, len, a)
    \/ \E id \in TreeIDs : DeleteNTree(id)

Spec == Init /\ [][Next]_vars

\* ------------------------------------------- visitations of one branch
\* a tree "t1" as its constructor leaves it, with at most one more handler
\* registered under "p"
VisitDefs == {Def("returns", "missing", FALSE, FALSE),
              Def("throws", "missing", FALSE, FALSE), Def("throwsNull", "missing", FALSE, FALSE)}
InitTables == {NewHandlers} \cup {registerHandler(NewHandlers, <<"p">>, d).handlers : d \in VisitDefs}

InitVisit ==
    /\ Repository \in {("t1" :> h) : h \in InitTables}
    /\ StateStore = ("t1" :> NewState)
    /\ last = Op("init", "", "", "", 0, "", -1, Plain("ok"))
    /\ run = NoRun

\* visitations of branch "b1" of "t1" with payloads of the lengths Ls
NextVisitOf(Ls) ==
    \/ \E t \in {"t1", "t2", ""}, b \in {"b1", ""} : Misaddressed(t, b)
    \/ \E r \in RepeatArgs, len \in Ls, a \in ArgExprs : Addressed("t1", "b1", r, len, a)

\* every payload: a <<treebranch>> with or without <<leaf>> tags
NextVisit == NextVisitOf(Lengths)
SpecVisit == InitVisit /\ [][NextVisit]_vars

\* payloads of a <<treebranch>> that has at least one <<leaf>>
NextLeaves == NextVisitOf(Lengths \ {1})
SpecLeaves == InitVisit /\ [][NextLeaves]_vars

\* ------------------------------------------------- calls of update
\* the tree "t1" with a handler "p" of every setting of onClear, skipArgs and
\* clearOnEveryLeaf, and after it at most one handler "q"
UpdateTables ==
    LET withP == {registerHandler(NewHandlers, <<"p">>, Def("returns", c, s, e)).handlers :
                     c \in {"missing", "returns"}, s \in BOOLEAN, e \in BOOLEAN}
    IN  withP \cup
        {registerHandler(h, <<"q">>, d).handlers :
            h \in withP, d \in {Def("returns", "returns", FALSE, TRUE),
                                 Def("throws", "throws", TRUE, TRUE)}}
UpdateDeltas == {EmptyMap, ("p" :> clear), ("p" :> Num(5)), ("p" :> ListOf(<<Num(1), Num(2)>>)),
                 ("p" :> clear) @@ ("q" :> Num(5)), ("p" :> ListOf(<<>>)) @@ ("q" :> clear)}

InitUpdate ==
    /\ Repository \in {("t1" :> h) : h \in UpdateTables}
    /\ StateStore = ("t1" :> NewState)
    /\ last = Op("init", "", "", "", 0, "", -1, Plain("ok"))
    /\ run = NoRun

NextUpdate ==
    \E d \in UpdateDeltas, ctx \in {NoCtx, ThisCtx} : UpdateWith("t1", d, ctx)

SpecUpdate == InitUpdate /\ [][NextUpdate]_vars

\* deltas whose values are false in a condition
FalsyDeltas == {("p" :> Num(0)), ("p" :> False), ("p" :> EmptyStr), ("p" :> Null),
                ("q" :> Num(0)), ("p" :> Null) @@ ("q" :> False)}

NextFalsy ==
    \E d \in FalsyDeltas \cup {EmptyMap}, ctx \in {NoCtx, ThisCtx} : UpdateWith("t1", d, ctx)

SpecFalsy == InitUpdate /\ [][NextFalsy]_vars

\* ------------------------------------------------- registrations
\* registrations in the handler table of one tree "t1"
RegisterIDs == {<<"p">>, <<"q">>, <<"p", "q">>, <<"q", "">>}
RegisterDefs == {Def("returns", "missing", FALSE, FALSE), Def("returns", "returns", TRUE, TRUE),
                 Def("throws", "returns", FALSE, TRUE), Def("returns", "notfn", FALSE, FALSE),
                 Def("notfn", "missing", FALSE, FALSE)}

InitRegister ==
    /\ Repository = ("t1" :> NewHandlers)
    /\ StateStore = ("t1" :> NewState)
    /\ last = Op("init", "", "", "", 0, "", -1, Plain("ok"))
    /\ run = NoRun

NextRegister ==
    \/ \E IDs \in RegisterIDs, def \in RegisterDefs : RegisterHandler("t1", IDs, def)
    \/ \E f \in {"returns", "builtin"} : RegisterDefault("t1", f)

SpecRegister == InitRegister /\ [][NextRegister]_vars

\* ------------------------------------------------- deletion of trees
\* The Repository lives in setup and the StateStore in the story variables
\* (the getters make each Map when it is missing), so the two tables are not
\* bound to hold the same ids: deleteNTree is applied to every pair of tables
\* over DeleteIDs.
DeleteIDs == {"t1", "t2", "t3"}
Visited == [log |-> ("b1" :> 1), delta |-> EmptyMap]

InitDelete ==
    /\ \E S \in SUBSET DeleteIDs : Repository = [id \in S |-> NewHandlers]
    /\ \E S \in SUBSET DeleteIDs : StateStore \in [S -> {NewState, Visited}]
    /\ last = Op("init", "", "", "", 0, "", -1, Plain("ok"))
    /\ run = NoRun

NextDelete == \E id \in DeleteIDs : DeleteNTree(id)

SpecDelete == InitDelete /\ [][NextDelete]_vars

\* ------------------------------------- visitations started by a callable
\* the tree "t1" with a handler "p" that revisits the branch it is called for,
\* and after it at most one handler "q" that throws
NestedTables ==
    LET revisiting == registerHandler(NewHandlers, <<"p">>, Def("revisits", "missing", FALSE, FALSE)).handlers
    IN  {revisiting} \cup
        {registerHandler(revisiting, <<"q">>, Def(f, "missing", FALSE, FALSE)).handlers :
            f \in {"throws", "throwsNull"}}
NestedArgs == {"", "{p: 1}", "{p: [1]}", "{q: 1}"}

InitNested ==
    /\ Repository \in {("t1" :> h) : h \in NestedTables}
    /\ StateStore = ("t1" :> NewState)
    /\ last = Op("init", "", "", "", 0, "", -1, Plain("ok"))
    /\ run = NoRun

NextNested ==
    \E r \in RepeatArgs, len \in Lengths, a \in NestedArgs : VisitNesting("t1", "b1", r, len, a)

SpecNested == InitNested /\ [][NextNested]_vars

\* ------------------------------------- branches of one tree and of two
\* the trees "t1" and "t2", each with a handler registered under "p", and the
\* branches "b1" and "b2" of each: the leaves of "b1" have the argument
\* object {p: 1} or none, the leaves of "b2" have none
BranchTrees == {"t1", "t2"}
BranchNames == {"b1", "b2"}
BranchLengths == {MaxLeaves}
BranchRepeats == {"undefined", NoRepeat, Repeat}
LeafArgs(b) == IF b = "b1" THEN {"", "{p: 1}"} ELSE {""}

InitBranches ==
    /\ Repository = [t \in BranchTrees |->
                        registerHandler(NewHandlers, <<"p">>, Def("returns", "missing", FALSE, FALSE)).handlers]
    /\ StateStore = [t \in BranchTrees |-> NewState]
    /\ last = Op("init", "", "", "", 0, "", -1, Plain("ok"))
    /\ run = NoRun

NextBranches ==
    \E t \in BranchTrees, b \in BranchNames, r \in BranchRepeats, len \in BranchLengths :
        \E a \in LeafArgs(b) : Addressed(t, b, r, len, a)

SpecBranches == InitBranches /\ [][NextBranches]_vars

\* ------------------------------------------------------------- claims
\* the cursor of (treeID, branchID)
CursorIn(store, treeID, branchID) ==
    IF treeID \in DOMAIN store THEN Latest(store[treeID], branchID) ELSE 0
Cursor(treeID, branchID) == CursorIn(StateStore, treeID, branchID)

\* the last operation was a visitation that called NTree.update
Dispatching(l) == l.op = "visit" /\ l.leaf >= 0

\* a run of n visitations of a branch of len chunks under one end-policy
RunOf(repeat, len, n) == run.repeat = repeat /\ run.len = len /\ run.n = n

\* C1 as stated: in a branch of 3 chunks under repeat, the 4th visitation from a
\* fresh cursor dispatches leaf 1 and leaves the cursor at 1.
C1_FourthVisitResets ==
    RunOf(Repeat, 3, 4) =>
        /\ last.outcome = "dispatched" /\ last.leaf = 1
        /\ Cursor(run.tree, run.branch) = 1

\* C1 amended: in a branch of 3 chunks under repeat, it is the 3rd visitation
\* from a fresh cursor that resets to leaf 1 (it dispatches leaf 1 and leaves the
\* cursor at 1); no visitation of the run reveals leaf 0.
C1_ThirdVisitResets ==
    /\ RunOf(Repeat, 3, 3) =>
          /\ last.outcome = "dispatched" /\ last.leaf = 1
          /\ Cursor(run.tree, run.branch) = 1
    /\ (run.repeat = Repeat /\ run.len = 3 /\ run.n >= 1) =>
          /\ last.leaf # 0
          /\ Cursor(run.tree, run.branch) # 0

C1_Witness ==
    /\ RunOf(Repeat, 3, 3)
    /\ last.op = "visit" /\ last.before = 2 /\ last.leaf = 1
    /\ Cursor(run.tree, run.branch) = 1

\* C2: a visitation under no-repeat made when cursor + 1 equals the payload
\* length calls no handler, leaves the state store as it was and reports no
\* error; in a branch of 3 chunks the cursor of a no-repeat run is 1, 2, 2, 2
\* after the 1st to 4th visitation, and the 4th dispatches nothing.
C2_NoRepeatStops ==
    [][ /\ (last'.op = "visit" /\ last'.repeat = NoRepeat /\ last'.before + 1 = last'.len) =>
              /\ last'.outcome = "silent" /\ last'.error = "none"
              /\ last'.calls = <<>> /\ last'.leaf = -1
              /\ StateStore' = StateStore
        /\ (run'.repeat = NoRepeat /\ run'.len = 3 /\ run'.n >= 1) =>
              /\ CursorIn(StateStore', run'.tree, run'.branch) = (IF run'.n = 1 THEN 1 ELSE 2)
              /\ (run'.n = 4 => last'.outcome = "silent" /\ last'.calls = <<>>)
      ]_vars

C2_Witness ==
    /\ RunOf(NoRepeat, 3, 4)
    /\ last.outcome = "silent" /\ last.before = 2
    /\ Cursor(run.tree, run.branch) = 2

\* the first argument of each call of the default handler's onUpdate
DefaultContent(l) ==
    LET c == SelectSeq(l.calls, LAMBDA x : x.id = defaultHandlerID /\ x.fn = "onUpdate")
    IN  [i \in 1..Len(c) |-> c[i].args[1]]

\* C3: under repeat-last, a visitation made at cursor = length - 1 whose leaf
\* parses dispatches leaf length - 1 and leaves the cursor unchanged; in a branch
\* of 3 chunks the 4th visitation of a run dispatches leaf 2 with the cursor
\* staying 2; and when the visitation before it revealed the same leaf with the
\* same argument text, the default handler receives the same content and renders
\* the same output.
C3_RepeatLastRedispatches ==
    [][ /\ (/\ last'.op = "visit" /\ last'.repeat = RepeatLast
            /\ last'.before = last'.len - 1
            /\ last'.error # "Malformed argument object") =>
              /\ last'.leaf = last'.len - 1
              /\ last'.delta # EmptyMap
              /\ CursorIn(StateStore', last'.tree, last'.branch) = last'.before
        /\ (run'.repeat = RepeatLast /\ run'.len = 3 /\ run'.n = 4) =>
              /\ last'.outcome = "dispatched" /\ last'.leaf = 2
              /\ CursorIn(StateStore', run'.tree, run'.branch) = 2
        /\ (/\ last.op = "visit" /\ last.outcome = "dispatched"
            /\ last'.op = "visit" /\ last'.outcome = "dispatched"
            /\ last'.repeat = RepeatLast /\ last'.before = last'.len - 1
            /\ last'.tree = last.tree /\ last'.branch = last.branch
            /\ last'.len = last.len /\ last'.leaf = last.leaf /\ last'.args = last.args) =>
              /\ DefaultContent(last') = DefaultContent(last)
              /\ DefaultContent(last') # <<>>
              /\ last'.out = last.out
      ]_vars

C3_Witness ==
    /\ RunOf(RepeatLast, 3, 4)
    /\ last.outcome = "dispatched" /\ last.before = 2 /\ last.leaf = 2
    /\ DefaultContent(last) = <<Contents(2)>>
    /\ Cursor(run.tree, run.branch) = 2

\* errors raised before the handler reads the store: tree resolution and the
\* parse of the leaf's argument expression
ResolutionErrors == {"No NTree ID specified", "No NTreeBranch ID specified",
                     "No NTree with specified ID"}
ParseError == "Malformed argument object"

\* C4: a visitation with a blank or unregistered tree id or a blank branch id,
\* or one whose leaf argument expression does not parse, ends in a diagnostic,
\* calls no handler and leaves the state store (every cursor, the pending
\* accumulator) as it was.
C4_FailedVisitKeepsState ==
    [][ (/\ last'.op = "visit"
         /\ \/ IsBlank(last'.tree) \/ IsBlank(last'.branch)
            \/ last'.tree \notin DOMAIN Repository
            \/ last'.error = ParseError) =>
           /\ last'.outcome = "diagnostic"
           /\ last'.error \in ResolutionErrors \cup {ParseError}
           /\ last'.calls = <<>>
           /\ StateStore' = StateStore
      ]_vars

C4_Witness ==
    /\ last.op = "visit" /\ last.error = ParseError
    /\ last.before = 1 /\ Cursor(last.tree, last.branch) = 1
    /\ DOMAIN StateStore[last.tree].delta # {}

\* a step in which the end-policy repeat resets the cursor of (t, b) to 1
RepeatReset(t, b) ==
    /\ last'.op = "visit" /\ last'.tree = t /\ last'.branch = b
    /\ last'.repeat = Repeat /\ last'.before + 1 = last'.len
    /\ last'.before = CursorIn(StateStore, t, b)
    /\ CursorIn(StateStore', t, b) = 1

\* a step in which new NTree(t) replaces the state entry of t
Reconstructed(t) ==
    /\ last'.op = "new" /\ last'.tree = t /\ last'.outcome = "ok"
    /\ StateStore'[t] = NewState

\* C5 as stated: while a tree has a state entry, no step lowers one of its
\* cursors except the reset to 1 by the end-policy repeat.
C5_CursorOnlyResetByRepeat ==
    [][ \A t \in TreeIDs, b \in BranchIDs :
          (t \in DOMAIN StateStore /\ t \in DOMAIN StateStore') =>
             \/ CursorIn(StateStore', t, b) >= CursorIn(StateStore, t, b)
             \/ RepeatReset(t, b)
      ]_vars

\* C5 amended: while a tree has a state entry, no step lowers one of its cursors
\* except the reset to 1 by the end-policy repeat and the construction of a tree
\* under the same id again, which replaces the entry by a fresh one.
C5_CursorResetByRepeatOrNew ==
    [][ \A t \in TreeIDs, b \in BranchIDs :
          (t \in DOMAIN StateStore /\ t \in DOMAIN StateStore') =>
             \/ CursorIn(StateStore', t, b) >= CursorIn(StateStore, t, b)
             \/ RepeatReset(t, b)
             \/ Reconstructed(t)
      ]_vars

C5_Witness ==
    /\ last.op = "visit" /\ last.repeat = Repeat /\ last.outcome = "dispatched"
    /\ last.before = 2 /\ last.len = 3
    /\ Cursor(last.tree, last.branch) = 1

\* C6: a registerHandler or registerDefault call that throws leaves the handler
\* table of its tree as it was before the call.
C6_RegistrationAtomic ==
    [][ (last'.op \in {"registerHandler", "registerDefault"} /\ last'.outcome = "threw") =>
           Repository' = Repository
      ]_vars

\* C7: every registered tree has exactly one handler under the default id.
C7_OneDefaultHandler ==
    \A t \in DOMAIN Repository :
        Cardinality({i \in 1..Len(Repository[t]) : Repository[t][i].id = defaultHandlerID}) = 1

\* C8: a visitation ends in a dispatch followed by the cursor write, or in a
\* reported diagnostic with the cursor unchanged, or in the silent stop, which
\* happens only under no-repeat when cursor + 1 equals the payload length.
C8_ThreeOutcomes ==
    last.op = "visit" =>
        \/ /\ last.outcome = "dispatched"
           /\ last.leaf >= 0 /\ Cursor(last.tree, last.branch) = last.leaf
        \/ /\ last.outcome = "diagnostic"
           /\ last.before >= 0 => Cursor(last.tree, last.branch) = last.before
        \/ /\ last.outcome = "silent"
           /\ last.repeat = NoRepeat /\ last.before + 1 = last.len
           /\ Cursor(last.tree, last.branch) = last.before

\* C9: the delta handed to NTree.update maps the default handler id to the
\* contents of the chunk being revealed, and every other key of the leaf's
\* parsed object to the value the leaf gives it.
C9_DefaultKeyIsContent ==
    Dispatching(last) =>
        /\ last.delta[defaultHandlerID] = Contents(last.leaf)
        /\ \A k \in DOMAIN Parsed(last.args) \ {defaultHandlerID} :
              last.delta[k] = Parsed(last.args)[k]

\* C10: a key set by the argument object of the leaf revealed by one
\* visitation is in the delta dispatched by the next visitation of the branch
\* with the same value, unless that visitation's leaf sets the key itself.
C10_KeyStaysInEffect ==
    [][ (/\ last.op = "visit" /\ last.outcome = "dispatched"
         /\ Dispatching(last')
         /\ last'.tree = last.tree /\ last'.branch = last.branch) =>
           \A k \in DOMAIN Parsed(last.args) \ DOMAIN Parsed(last'.args) :
              /\ k \in DOMAIN last'.delta
              /\ last'.delta[k] = Parsed(last.args)[k]
      ]_vars

\* the handlers of a table that a dispatch of delta calls onUpdate of
Updated(handlers, delta) ==
    {handlers[i].id : i \in {j \in 1..Len(handlers) :
        handlers[j].id \in DOMAIN delta /\ delta[handlers[j].id] # clear}}
\* the handlers whose onUpdate was called
CalledUpdate(calls) == {calls[i].id : i \in {j \in 1..Len(calls) : calls[j].fn = "onUpdate"}}

C12_DeleteBothOrNeither ==
    [][ last'.op = "delete" =>
          LET id == last'.tree
          IN  /\ last'.outcome = "true" =>
                    /\ id \in DOMAIN Repository /\ id \in DOMAIN StateStore
                    /\ id \notin DOMAIN Repository' /\ id \notin DOMAIN StateStore'
              /\ (id \notin DOMAIN Repository /\ id \notin DOMAIN StateStore) =>
                    /\ last'.outcome = "false"
                    /\ Repository' = Repository /\ StateStore' = StateStore
              /\ ~(id \in DOMAIN Repository /\ id \notin DOMAIN Repository' /\ id \in DOMAIN StateStore')
              /\ ~(id \in DOMAIN StateStore /\ id \notin DOMAIN StateStore' /\ id \in DOMAIN Repository')
              /\ \A o \in DeleteIDs \ {id} :
                    /\ o \in DOMAIN Repository <=> o \in DOMAIN Repository'
                    /\ o \in DOMAIN StateStore <=> o \in DOMAIN StateStore'
      ]_vars

C12_Witness ==
    /\ last.op = "delete" /\ last.outcome = "true" /\ last.tree = "t2"
    /\ "t2" \notin DOMAIN Repository /\ "t2" \notin DOMAIN StateStore
    /\ "t1" \in DOMAIN Repository /\ "t1" \notin DOMAIN StateStore

\* C13: from empty tables, an id has an entry in the Repository exactly when it
\* has an entry in the StateStore.
C13_RegistryMatchesStore ==
    DOMAIN Repository = DOMAIN StateStore

C13_Witness ==
    /\ last.op = "delete" /\ last.outcome = "true"
    /\ last.tree \notin DOMAIN Repository /\ last.tree \notin DOMAIN StateStore

\* the entries of a handler table under id
EntriesOf(handlers, id) == SelectSeq(handlers, LAMBDA h : h.id = id)
\* the ids of a sequence of ids
IDSet(IDs) == {IDs[i] : i \in 1..Len(IDs)}

\* C14: a registerHandler call that returns leaves, under each id it was given,
\* one entry that carries the onUpdate, onClear, skipArgs and clearOnEveryLeaf
\* of the definition it was given, whether or not the id had an entry, and
\* leaves the entry of every other id as it was.
C14_ReRegisterReplaces ==
    [][ (last'.op = "registerHandler" /\ last'.outcome = "ok") =>
          LET t == last'.tree
              IDs == last'.given[1]
              def == last'.given[2]
          IN  /\ \A id \in IDSet(IDs) :
                    LET e == EntriesOf(Repository'[t], id)
                    IN  /\ Len(e) = 1
                        /\ e[1].onUpdate = def.onUpdate /\ e[1].onClear = def.onClear
                        /\ e[1].skipArgs = def.skipArgs
                        /\ e[1].clearOnEveryLeaf = def.clearOnEveryLeaf
              /\ \A o \in HandlerIDs(Repository[t]) \cup HandlerIDs(Repository'[t]) :
                    o \notin IDSet(IDs) => EntriesOf(Repository'[t], o) = EntriesOf(Repository[t], o)
      ]_vars

C14_Witness ==
    /\ last.op = "registerHandler" /\ last.outcome = "ok" /\ last.before = 1
    /\ last.given = <<(<<"p">>), Def("returns", "returns", TRUE, TRUE)>>
    /\ Len(EntriesOf(Repository["t1"], "p")) = 1
    /\ EntriesOf(Repository["t1"], "p")[1].skipArgs
    /\ Len(EntriesOf(Repository["t1"], "q")) = 1
    /\ EntriesOf(Repository["t1"], "q")[1].onUpdate = "throws"
    /\ Len(Repository["t1"]) = 3

\* the calls made of the callables of the handler id
CallsOf(calls, id) == SelectSeq(calls, LAMBDA c : c.id = id)
\* the entry of the handler id in the table of the tree of the last operation
HandlerOf(id) == EntriesOf(Repository[last.tree], id)[1]
\* the macro context the last update was given
CtxOf(l) == l.given[1]

\* C15: in an update whose delta maps the id of a handler to NTree.clear, the
\* only call made of the handler is onClear(ctx), made once when the handler
\* has an onClear and update reaches the handler, and onUpdate of the handler
\* is not called, whatever its skipArgs and clearOnEveryLeaf are.
C15_ClearNeverUpdates ==
    last.op = "update" =>
        \A id \in HandlerIDs(Repository[last.tree]) :
            (id \in DOMAIN last.delta /\ last.delta[id] = clear) =>
                LET c == CallsOf(last.calls, id)
                IN  /\ c \in {<<>>, <<Call(id, "onClear", <<CtxOf(last)>>)>>}
                    /\ HandlerOf(id).onClear = "missing" => c = <<>>
                    /\ (HandlerOf(id).onClear # "missing" /\ last.outcome = "ok") => c # <<>>

C15_Witness ==
    /\ last.op = "update" /\ last.outcome = "ok"
    /\ last.delta = ("p" :> clear) /\ CtxOf(last) = ThisCtx
    /\ HandlerOf("p").skipArgs /\ HandlerOf("p").clearOnEveryLeaf
    /\ CallsOf(last.calls, "p") = <<Call("p", "onClear", <<ThisCtx>>)>>

\* C16: an update with an empty delta calls no onUpdate; it calls no callable
\* of a handler that has clearOnEveryLeaf false or no onClear; and when it
\* returns it has called onClear(ctx) once for each handler that has
\* clearOnEveryLeaf true and an onClear.
C16_EmptyDeltaClears ==
    (last.op = "update" /\ last.delta = EmptyMap) =>
        /\ \A i \in 1..Len(last.calls) : last.calls[i].fn # "onUpdate"
        /\ \A id \in HandlerIDs(Repository[last.tree]) :
              LET c == CallsOf(last.calls, id)
                  clears == HandlerOf(id).clearOnEveryLeaf /\ HandlerOf(id).onClear # "missing"
              IN  /\ ~clears => c = <<>>
                  /\ c \in {<<>>, <<Call(id, "onClear", <<CtxOf(last)>>)>>}
                  /\ (clears /\ last.outcome = "ok") => c # <<>>

C16_Witness ==
    /\ last.op = "update" /\ last.delta = EmptyMap /\ last.outcome = "ok"
    /\ Len(Repository[last.tree]) = 3
    /\ HandlerOf("p").clearOnEveryLeaf /\ HandlerOf("p").onClear = "missing"
    /\ last.calls = <<Call("q", "onClear", <<CtxOf(last)>>)>>

\* C17: the one call update makes of a handler whose key holds a value other
\* than NTree.clear is onUpdate: with skipArgs false and a list value, of the
\* elements of the list followed by the context; with skipArgs false and
\* another value v, of v and the context; with skipArgs true, of the value (a
\* list or not) and the context.
C17_ArgumentShaping ==
    last.op = "update" =>
        \A id \in HandlerIDs(Repository[last.tree]) :
            (id \in DOMAIN last.delta /\ last.delta[id] # clear) =>
                LET c == CallsOf(last.calls, id)
                    v == last.delta[id]
                    shaped == IF ~HandlerOf(id).skipArgs /\ IsArray(v)
                              THEN v.items \o <<CtxOf(last)>>
                              ELSE <<v, CtxOf(last)>>
                IN  /\ c \in {<<>>, <<Call(id, "onUpdate", shaped)>>}
                    /\ last.outcome = "ok" => c # <<>>

C17_Witness ==
    /\ last.op = "update" /\ last.outcome = "ok" /\ CtxOf(last) = ThisCtx
    /\ last.delta = ("p" :> ListOf(<<Num(1), Num(2)>>))
    /\ ~HandlerOf("p").skipArgs
    /\ CallsOf(last.calls, "p") = <<Call("p", "onUpdate", <<Num(1), Num(2), ThisCtx>>)>>

\* the contents of the leaves 1 to c, in order
LeavesUpTo(c) == [i \in 1..c |-> Contents(i)]

\* C18: a visitation that dispatches leaf c to the default handler of the
\* constructor renders once, the contents of the leaves 1 to c in order,
\* whatever its first argument is; and when a visitation dispatches the leaf
\* after the one the visitation before it dispatched, it renders what that one
\* rendered followed by the contents of its leaf.
C18_DefaultRendersPrefix ==
    [][ /\ (Dispatching(last') /\ HandlerOf(defaultHandlerID)'.onUpdate = "builtin") =>
              /\ last'.out = <<LeavesUpTo(last'.leaf)>>
              /\ Len(DefaultContent(last')) = 1
        /\ (/\ Dispatching(last) /\ Dispatching(last')
            /\ HandlerOf(defaultHandlerID)'.onUpdate = "builtin"
            /\ last'.tree = last.tree /\ last'.branch = last.branch
            /\ last'.leaf = last.leaf + 1) =>
              last'.out = <<Append(last.out[1], Contents(last'.leaf))>>
      ]_vars

C18_Witness ==
    /\ Dispatching(last) /\ last.before = 1 /\ last.leaf = 2
    /\ last.args = "{__default: 'x'}"
    /\ DefaultContent(last) = <<Str(0)>>
    /\ last.out = <<(<<Contents(1), Contents(2)>>)>>

\* the contexts among the arguments of a call
ContextsIn(args) == {i \in 1..Len(args) : args[i].t = "ctx"}

\* C19: a visitation that dispatches a list to a handler with skipArgs false
\* calls its onUpdate with the elements the leaf gave followed by the context,
\* the context being the last and only context among the arguments; and after
\* a visitation that dispatched, the accumulator holds under each of its keys
\* the value the dispatched delta was built with.
C19_DispatchKeepsList ==
    Dispatching(last) =>
        /\ \A i \in 1..Len(last.calls) :
              LET c == last.calls[i]
              IN  (/\ c.fn = "onUpdate" /\ ~HandlerOf(c.id).skipArgs
                   /\ IsArray(last.delta[c.id])) =>
                      ContextsIn(c.args) = {Len(c.args)}
        /\ \A k \in DOMAIN StateStore[last.tree].delta :
              StateStore[last.tree].delta[k] = last.delta[k]

\* a value that cannot be saved: NTree.clear, a macro context, or a list that
\* holds one
Unserializable(v) ==
    \/ v = clear \/ v.t = "ctx"
    \/ \E i \in 1..Len(v.items) : v.items[i] = clear \/ v.items[i].t = "ctx"

\* C20: no accumulator of the state store holds NTree.clear or a macro context.
C20_AccumulatorSerializable ==
    \A t \in DOMAIN StateStore : \A k \in DOMAIN StateStore[t].delta :
        ~Unserializable(StateStore[t].delta[k])

\* C21: an update whose delta holds 0, false, the empty string or null under
\* the id of a handler calls onUpdate of the handler once, with that value and
\* the context, and does not call its onClear, whatever clearOnEveryLeaf is; a
\* call of onClear is made only for a handler whose id is not a key of the
\* delta or whose key holds NTree.clear.
C21_KeyPresenceDecides ==
    last.op = "update" =>
        /\ \A id \in HandlerIDs(Repository[last.tree]) :
              (id \in DOMAIN last.delta /\ Falsy(last.delta[id])) =>
                  CallsOf(last.calls, id) = <<Call(id, "onUpdate", <<last.delta[id], CtxOf(last)>>)>>
        /\ \A i \in 1..Len(last.calls) :
              last.calls[i].fn = "onClear" =>
                  \/ last.calls[i].id \notin DOMAIN last.delta
                  \/ last.delta[last.calls[i].id] = clear

C21_Witness ==
    /\ last.op = "update" /\ last.delta = ("p" :> Num(0))
    /\ HandlerOf("p").clearOnEveryLeaf /\ HandlerOf("p").onClear = "returns"
    /\ CallsOf(last.calls, "p") = <<Call("p", "onUpdate", <<Num(0), CtxOf(last)>>)>>

\* C22: a visitation of a branch of L >= 1 chunks that dispatches and returns
\* reveals a leaf in 1..L-1 and leaves the cursor of the branch in 1..L-1;
\* chunk 0 is never dispatched and the cursor never reaches L.
C22_LeafWithinBranch ==
    (last.op = "visit" /\ last.outcome = "dispatched") =>
        /\ last.leaf \in 1..(last.len - 1)
        /\ Cursor(last.tree, last.branch) \in 1..(last.len - 1)

\* C23: the delta dispatched for a branch holds the keys of the leaves of that
\* branch only: when no leaf of "b2" has an argument object, the delta
\* dispatched by a visitation of "b2" has the default key alone, whatever
\* visitations of "b1" of the same tree were made before it.
C23_DeltaOfOwnBranch ==
    (Dispatching(last) /\ last.branch = "b2") => DOMAIN last.delta = {defaultHandlerID}

\* C24: a visitation of branch B of tree T leaves as they were the cursor of
\* every other branch of T (a branch without a cursor stays without one), the
\* Tree State of every other tree, the trees the Repository holds and the ids
\* registered in the table of each tree; the one cursor it can write is that of
\* (T, B).
C24_VisitationFrame ==
    [][ last'.op = "visit" =>
          /\ DOMAIN StateStore' = DOMAIN StateStore
          /\ \A t \in DOMAIN StateStore :
                IF t = last'.tree
                THEN /\ DOMAIN StateStore'[t].log \subseteq DOMAIN StateStore[t].log \cup {last'.branch}
                     /\ \A b \in DOMAIN StateStore[t].log \ {last'.branch} :
                           /\ b \in DOMAIN StateStore'[t].log
                           /\ StateStore'[t].log[b] = StateStore[t].log[b]
                ELSE StateStore'[t] = StateStore[t]
          /\ DOMAIN Repository' = DOMAIN Repository
          /\ \A t \in DOMAIN Repository : HandlerIDs(Repository'[t]) = HandlerIDs(Repository[t])
      ]_vars

C24_Witness ==
    /\ last.op = "visit" /\ last.outcome = "dispatched"
    /\ last.tree = "t1" /\ last.branch = "b2" /\ last.before = 0
    /\ Cursor("t1", "b2") = 1 /\ Cursor("t1", "b1") = 2
    /\ Cursor("t2", "b1") = 1 /\ "p" \in DOMAIN StateStore["t2"].delta

====
